---- MODULE Spec2Model ----
(***************************************************************************)
(* Order manager (src/order_manager.py): an interactive menu loop that     *)
(* adds orders to a pending store (orders.json), reports them, and moves   *)
(* a selected order to a completed store (output_orders.json).             *)
(*                                                                         *)
(* Text typed at a prompt that the program inspects (order id, numbers,    *)
(* selections) is a sequence of one-character strings; text the program    *)
(* only stores or compares with a literal is a TLA+ string.                *)
(***************************************************************************)
EXTENDS Integers, Sequences, FiniteSets, Bags, TLC

VARIABLES
    pendingFile,      \* the file INPUT_FILE ("orders.json")
    completedFile,    \* the file OUTPUT_FILE ("output_orders.json")
    pc,               \* the prompt or statement the process is at
    choice,           \* main: choice, the text last typed at the menu
    orders,           \* main's / add_order's / process_order's list `orders`
    order_id,         \* add_order: order_id
    customer,         \* add_order: customer
    items,            \* add_order: items
    item_name,        \* add_order: item_name
    price,            \* add_order: price
    output_orders,    \* process_order: output_orders
    selection,        \* process_order: selection, the text last typed at its prompt
    processed_order,  \* process_order's and main's processed_order (<<>> is None)
    result,           \* main: the kind of message last returned to main
    total,            \* the value calculate_order_total returned to its caller
    entered_id,       \* history: the text typed at add_order's order id prompt
    fulfil,           \* history: both stores and the selection when the order was popped
    added,            \* history: the bag of orders add_order has persisted
    failedAt          \* where the process failed, while it is dead

vars == <<pendingFile, completedFile, pc, orders, order_id, customer, items,
          item_name, price, output_orders, selection, processed_order, result,
          entered_id, fulfil, added, failedAt, total, choice>>

files == <<pendingFile, completedFile>>
addLocals == <<order_id, customer, items, item_name, price, entered_id>>

-----------------------------------------------------------------------------
(* Bounds of the model *)

\* successful adds in one behaviour
MaxOrders == 2
\* line items collected for the orders of one behaviour
MaxItems == 3

-----------------------------------------------------------------------------
(* Text: str.upper, int(...) and the decimal text of an integer *)

LowerLetters == <<"a","b","c","d","e","f","g","h","i","j","k","l","m",
                  "n","o","p","q","r","s","t","u","v","w","x","y","z">>
UpperLetters == <<"A","B","C","D","E","F","G","H","I","J","K","L","M",
                  "N","O","P","Q","R","S","T","U","V","W","X","Y","Z">>
DigitChars == <<"0","1","2","3","4","5","6","7","8","9">>

IndexIn(c, alphabet) == CHOOSE i \in 1..Len(alphabet) : alphabet[i] = c
IsIn(c, alphabet) == \E i \in 1..Len(alphabet) : alphabet[i] = c

upperChar(c) == IF IsIn(c, LowerLetters) THEN UpperLetters[IndexIn(c, LowerLetters)] ELSE c

\* variant: the id is kept as typed
upper_asTyped(s) == s

\* str.upper()
upper(s) == [i \in 1..Len(s) |-> upperChar(s[i])]

RECURSIVE lstrip(_)
lstrip(s) == IF s # <<>> /\ s[1] = " " THEN lstrip(Tail(s)) ELSE s

RECURSIVE rstrip(_)
rstrip(s) == IF s # <<>> /\ s[Len(s)] = " " THEN rstrip(SubSeq(s, 1, Len(s) - 1)) ELSE s

strip(s) == rstrip(lstrip(s))

\* the digits of an integer literal, after the blanks and the sign
Magnitude(s) ==
    LET t == strip(s)
    IN  IF t # <<>> /\ t[1] \in {"+", "-"} THEN Tail(t) ELSE t

\* int(s) raises ValueError
RaisesValueError(s) ==
    LET m == Magnitude(s)
    IN  m = <<>> \/ \E i \in 1..Len(m) : ~IsIn(m[i], DigitChars)

RECURSIVE DigitsValue(_)
DigitsValue(m) ==
    IF m = <<>> THEN 0
    ELSE 10 * DigitsValue(SubSeq(m, 1, Len(m) - 1)) + (IndexIn(m[Len(m)], DigitChars) - 1)

\* int(s), where it does not raise
int(s) ==
    LET t == strip(s)
    IN  IF t[1] = "-" THEN 0 - DigitsValue(Magnitude(s)) ELSE DigitsValue(Magnitude(s))

\* variant: only the last digit is written
NatText_lastDigit(n) == <<DigitChars[(n % 10) + 1]>>

RECURSIVE NatText(_)
NatText(n) == IF n < 10 THEN <<DigitChars[n + 1]>>
              ELSE Append(NatText(n \div 10), DigitChars[(n % 10) + 1])

\* the decimal text json.dump writes for an integer
IntText(n) == IF n < 0 THEN <<"-">> \o NatText(0 - n) ELSE NatText(n)

-----------------------------------------------------------------------------
(* Orders, and the document json.dump writes and json.load reads *)

\* the dict built for one line item
new_item(name, p, q) == [name |-> name, price |-> p, quantity |-> q]

\* the dict built for one order
new_order(id, cust, its) == [order_id |-> id, customer |-> cust, items |-> its]

\* a JSON object is the sequence of its <<key, value>> members, in insertion order
DumpItem(it) ==
    << <<"name", it.name>>, <<"price", IntText(it.price)>>,
       <<"quantity", IntText(it.quantity)>> >>

DumpOrder(o) ==
    << <<"order_id", o.order_id>>, <<"customer", o.customer>>,
       <<"items", [j \in 1..Len(o.items) |-> DumpItem(o.items[j])]>> >>

\* json.dump(orders, file): the document written
json_dump(os) == [i \in 1..Len(os) |-> DumpOrder(os[i])]

\* the value of member `key` of a JSON object
Member(obj, key) == obj[CHOOSE i \in 1..Len(obj) : obj[i][1] = key][2]

\* variant: price and quantity are read into each other's place
LoadItem_swapped(e) ==
    new_item(Member(e, "name"), int(Member(e, "quantity")), int(Member(e, "price")))

LoadItem(e) ==
    new_item(Member(e, "name"), int(Member(e, "price")), int(Member(e, "quantity")))

LoadOrder(e) ==
    LET its == Member(e, "items")
    IN  new_order(Member(e, "order_id"), Member(e, "customer"),
                  [j \in 1..Len(its) |-> LoadItem(its[j])])

\* json.load(file): the list read back
json_load(doc) == [i \in 1..Len(doc) |-> LoadOrder(doc[i])]

\* a file that does not exist
NoFile == [exists |-> FALSE, wellformed |-> TRUE, doc |-> <<>>]

\* a file that is there and that json.load cannot parse
Unparsable == [exists |-> TRUE, wellformed |-> FALSE, doc |-> <<>>]

\* save_orders(filename, orders): the file after the call
save_orders(os) == [exists |-> TRUE, wellformed |-> TRUE, doc |-> json_dump(os)]

\* variant: a file that does not exist is an error as well
load_raises_missing(file) == ~file.exists \/ ~file.wellformed

\* variant: a file that cannot be parsed is read as the empty list
load_raises_never(file) == FALSE

\* load_data(filename) raises: the file is there and json.load cannot parse it
load_raises(file) == file.exists /\ ~file.wellformed

\* load_data(filename), where it does not raise
load_data(file) == IF ~file.exists THEN <<>> ELSE json_load(file.doc)

\* variant: price and quantity are added instead of multiplied
RECURSIVE SumItems_added(_)
SumItems_added(its) ==
    IF its = <<>> THEN 0
    ELSE its[1].price + its[1].quantity + SumItems_added(Tail(its))

\* calculate_order_total(order)
RECURSIVE SumItems(_)
SumItems(its) ==
    IF its = <<>> THEN 0
    ELSE its[1].price * its[1].quantity + SumItems(Tail(its))

calculate_order_total(order) == SumItems(order.items)

-----------------------------------------------------------------------------
(* What the user may type at each prompt *)

ChoiceInputs == {"", "1", "2", "3", "4", "9"}
OrderIdInputs == {<<>>, <<"a", "1">>, <<"A", "1">>, <<"b", "2">>}
CustomerInputs == {"Tom"}
ItemNameInputs == {"", "Burger"}
NumberInputs == {<<>>, <<"x">>, <<"-", "1">>, <<"0">>, <<"2">>, <<" ", "2">>}
SelectionInputs ==
    {<<>>, <<"x">>, <<"-", "1">>} \cup {IntText(n) : n \in 0..(MaxOrders + 1)}

-----------------------------------------------------------------------------
(* The pieces of add_order and process_order *)

\* variant: the list is not searched
IsDuplicate_never(os, id) == FALSE

\* variant: the completed store is searched as well
IsDuplicate_anyStore(os, id) ==
    \/ \E i \in 1..Len(os) : os[i].order_id = id
    \/ \E i \in 1..Len(load_data(completedFile)) :
          load_data(completedFile)[i].order_id = id

\* add_order: the entered id, uppercased, is the id of an order of the list
IsDuplicate(os, id) == \E i \in 1..Len(os) : os[i].order_id = id

\* variant: the order is put at the front of the list
AppendOrder_front(os, o) == <<o>> \o os

\* add_order: orders.append(new_order)
AppendOrder(os, o) == Append(os, o)

\* variant: the empty list is not detected
NoOrders_never(os) == FALSE

\* process_order: `not orders`
NoOrders(os) == os = <<>>

\* variant: the empty item list is not detected
NoItems_never(its) == FALSE

\* add_order: `not items`
NoItems(its) == its = <<>>

\* get_valid_price returns int(s)
ValidPrice(s) == ~RaisesValueError(s) /\ int(s) >= 0

\* variant: a quantity of 0 is accepted
ValidQuantity_zero(s) == ~RaisesValueError(s) /\ int(s) >= 0

\* get_valid_quantity returns int(s)
ValidQuantity(s) == ~RaisesValueError(s) /\ int(s) > 0

\* process_order: int(selection) - 1 is an index of the list
ValidSelection(os, s) ==
    ~RaisesValueError(s) /\ 0 <= int(s) - 1 /\ int(s) - 1 < Len(os)

\* variant: the element is returned and stays in the list
PopRest_none(os, index) == os

\* variant: the last element is removed, whatever the index
PopRest_last(os, index) == SubSeq(os, 1, Len(os) - 1)

\* orders.pop(index): the list left, index counted from 0
PopRest(os, index) ==
    [k \in 1..(Len(os) - 1) |-> IF k <= index THEN os[k] ELSE os[k + 1]]

\* orders.pop(index): the element returned
PopItem(os, index) == os[index + 1]

\* the locals of add_order and process_order are gone once they return
NoAddLocals ==
    /\ order_id' = <<>>
    /\ customer' = ""
    /\ items' = <<>>
    /\ item_name' = ""
    /\ price' = 0
    /\ entered_id' = <<>>

\* no fulfilment is under way
NoFulfil == [pending |-> <<>>, completed |-> <<>>, selection |-> 0]

\* an uncaught exception, or any other failure of the process, at `at`
Dies(at) ==
    /\ pc' = "dead"
    /\ failedAt' = at

-----------------------------------------------------------------------------
(* The state after the program starts *)

Init ==
    /\ pendingFile = NoFile
    /\ completedFile = NoFile
    /\ pc = "menu"
    /\ orders = <<>>
    /\ order_id = <<>>
    /\ customer = ""
    /\ items = <<>>
    /\ item_name = ""
    /\ price = 0
    /\ output_orders = <<>>
    /\ selection = <<>>
    /\ processed_order = <<>>
    /\ result = "none"
    /\ entered_id = <<>>
    /\ fulfil = NoFulfil
    /\ added = EmptyBag
    /\ failedAt = "none"
    /\ total = 0
    /\ choice = "none"

-----------------------------------------------------------------------------
(* main: the menu *)

\* choice is empty or "4": break
MenuExit ==
    /\ pc = "menu"
    /\ \E c \in ChoiceInputs :
         /\ choice' = c
         /\ c = "" \/ c = "4"
         /\ pc' = "exit"
    /\ UNCHANGED <<files, orders, addLocals, output_orders, selection, processed_order,
                   result, fulfil, added, failedAt, total>>

\* choice "1": load the pending store and enter add_order
MenuAdd ==
    /\ pc = "menu"
    /\ BagCardinality(added) < MaxOrders
    /\ \E c \in ChoiceInputs :
         /\ choice' = c
         /\ c = "1"
         /\ IF load_raises(pendingFile)
            THEN Dies("load_data") /\ UNCHANGED orders
            ELSE /\ orders' = load_data(pendingFile)
                 /\ pc' = "a_id"
                 /\ UNCHANGED <<failedAt>>
    /\ UNCHANGED <<files, addLocals, output_orders, selection, processed_order, result,
                   fulfil, added, total>>

\* variant: the report prints the list main has in memory
MenuReport_noLoad ==
    /\ pc = "menu"
    /\ \E c \in ChoiceInputs :
         /\ choice' = c
         /\ c = "2"
    /\ UNCHANGED <<files, pc, orders, addLocals, output_orders, selection, processed_order,
                   result, fulfil, added, failedAt, total>>

\* choice "2": load the pending store and print the report
MenuReport ==
    /\ pc = "menu"
    /\ \E c \in ChoiceInputs :
         /\ choice' = c
         /\ c = "2"
         /\ IF load_raises(pendingFile)
            THEN Dies("load_data") /\ UNCHANGED orders
            ELSE /\ orders' = load_data(pendingFile)
                 /\ UNCHANGED <<pc, failedAt>>
    /\ UNCHANGED <<files, addLocals, output_orders, selection, processed_order, result,
                   fulfil, added, total>>

\* choice "3": load the pending store and call process_order
MenuProcess ==
    /\ pc = "menu"
    /\ \E c \in ChoiceInputs :
         /\ choice' = c
         /\ c = "3"
         /\ IF load_raises(pendingFile)
            THEN Dies("load_data") /\ UNCHANGED orders
            ELSE /\ orders' = load_data(pendingFile)
                 /\ pc' = "p_entry"
                 /\ UNCHANGED <<failedAt>>
    /\ UNCHANGED <<files, addLocals, output_orders, selection, processed_order, result,
                   fulfil, added, total>>

\* any other choice: a message, and the menu again
MenuOther ==
    /\ pc = "menu"
    /\ \E c \in ChoiceInputs :
         /\ choice' = c
         /\ c \notin {"", "1", "2", "3", "4"}
    /\ UNCHANGED <<files, pc, orders, addLocals, output_orders, selection, processed_order,
                   result, fulfil, added, failedAt, total>>

-----------------------------------------------------------------------------
(* add_order *)

\* history: the line items of the orders added so far
ItemsAdded ==
    LET RECURSIVE Count(_)
        Count(S) == IF S = {} THEN 0
                    ELSE LET o == CHOOSE x \in S : TRUE
                         IN  CopiesIn(o, added) * Len(o.items) + Count(S \ {o})
    IN  Count(BagToSet(added))

\* prompt for the order id, uppercased
AddOrderId ==
    /\ pc = "a_id"
    /\ \E s \in OrderIdInputs :
         /\ entered_id' = s
         /\ order_id' = upper(s)
    /\ pc' = "a_check"
    /\ UNCHANGED <<files, orders, customer, items, item_name, price, output_orders, selection,
                   processed_order, result, fulfil, added, failedAt, total, choice>>

\* an id that is already in the list returns the error message
AddCheckId ==
    /\ pc = "a_check"
    /\ IF IsDuplicate(orders, order_id)
       THEN /\ result' = "DuplicateOrderId"
            /\ pc' = "menu"
            /\ NoAddLocals
       ELSE /\ pc' = "a_customer"
            /\ UNCHANGED <<result, addLocals>>
    /\ UNCHANGED <<files, orders, output_orders, selection, processed_order, fulfil, added,
                   failedAt, total, choice>>

\* prompt for the customer name; items = []
AddCustomer ==
    /\ pc = "a_customer"
    /\ \E s \in CustomerInputs : customer' = s
    /\ items' = <<>>
    /\ pc' = "a_item"
    /\ UNCHANGED <<files, orders, order_id, item_name, price, entered_id,
                   output_orders, selection, processed_order, result, fulfil, added, failedAt, total, choice>>

\* prompt for an item name; the empty name breaks out of the loop
AddItemName ==
    /\ pc = "a_item"
    /\ \E s \in ItemNameInputs :
         /\ item_name' = s
         /\ IF s = ""
            THEN pc' = "a_done"
            ELSE /\ ItemsAdded + Len(items) < MaxItems
                 /\ pc' = "a_price"
    /\ UNCHANGED <<files, orders, order_id, customer, items, price, entered_id,
                   output_orders, selection, processed_order, result, fulfil, added, failedAt, total, choice>>

\* after the loop: an order without items returns the error message; otherwise
\* the order is appended to the list and the list is saved
AddFinish ==
    /\ pc = "a_done"
    /\ IF NoItems(items)
       THEN /\ result' = "EmptyOrder"
            /\ UNCHANGED <<files, orders, added>>
       ELSE /\ orders' = AppendOrder(orders, new_order(order_id, customer, items))
            /\ pendingFile' = save_orders(orders')
            /\ added' = added (+) SetToBag({new_order(order_id, customer, items)})
            /\ result' = "Added"
            /\ UNCHANGED completedFile
    /\ pc' = "menu"
    /\ NoAddLocals
    /\ UNCHANGED <<output_orders, selection, processed_order, fulfil, failedAt, total, choice>>

\* get_valid_price: prompt again until the text is an integer >= 0
AddPrice ==
    /\ pc = "a_price"
    /\ \E s \in NumberInputs :
         IF ValidPrice(s)
         THEN price' = int(s) /\ pc' = "a_qty"
         ELSE UNCHANGED <<price, pc>>
    /\ UNCHANGED <<files, orders, order_id, customer, items, item_name, entered_id,
                   output_orders, selection, processed_order, result, fulfil, added, failedAt, total, choice>>

\* get_valid_quantity: prompt again until the text is an integer > 0; then
\* the item is appended to items
AddQuantity ==
    /\ pc = "a_qty"
    /\ \E s \in NumberInputs :
         IF ValidQuantity(s)
         THEN /\ items' = Append(items, new_item(item_name, price, int(s)))
              /\ item_name' = ""
              /\ price' = 0
              /\ pc' = "a_item"
         ELSE UNCHANGED <<items, item_name, price, pc>>
    /\ UNCHANGED <<files, orders, order_id, customer, entered_id, output_orders, selection,
                   processed_order, result, fulfil, added, failedAt, total, choice>>

-----------------------------------------------------------------------------
(* process_order *)

\* an empty list returns at once; otherwise the list is printed
ProcessEntry ==
    /\ pc = "p_entry"
    /\ IF NoOrders(orders)
       THEN /\ result' = "NoPendingOrders"
            /\ processed_order' = <<>>
            /\ pc' = "menu"
       ELSE /\ pc' = "p_select"
            /\ UNCHANGED <<result, processed_order>>
    /\ UNCHANGED <<files, orders, addLocals, output_orders, selection, fulfil, added, failedAt, total, choice>>

\* variant: an invalid selection is returned to main as a failure
AfterInvalidSelection_returns ==
    /\ result' = "InvalidSelection"
    /\ pc' = "menu"

\* process_order: after the message "enter a valid number" (the else branch,
\* and the handler of ValueError) the loop goes on to the prompt again; nothing
\* is returned
AfterInvalidSelection ==
    /\ pc' = "p_select"
    /\ UNCHANGED result

\* variant: the empty selection is not detected
IsCancel_never(s) == FALSE

\* process_order: `not selection`
IsCancel(s) == s = <<>>

\* prompt for the selection: empty cancels, an invalid one prompts again, a
\* valid one pops the order, loads the completed store and appends the order.
\* The error json.load raises for a completed store it cannot parse is a
\* ValueError and is raised inside the try block: the order is popped already,
\* the handler prints the message and the loop prompts again.
ProcessSelect ==
    /\ pc = "p_select"
    /\ \E s \in SelectionInputs :
         /\ selection' = s
         /\ IF IsCancel(s)
            THEN /\ result' = "Cancelled"
                 /\ processed_order' = <<>>
                 /\ pc' = "menu"
                 /\ UNCHANGED <<orders, output_orders, fulfil>>
            ELSE IF ~ValidSelection(orders, s)
            THEN /\ AfterInvalidSelection
                 /\ UNCHANGED <<orders, output_orders, processed_order, fulfil>>
            ELSE /\ processed_order' = <<PopItem(orders, int(s) - 1)>>
                 /\ orders' = PopRest(orders, int(s) - 1)
                 /\ IF load_raises(completedFile)
                    THEN /\ AfterInvalidSelection
                         /\ UNCHANGED <<output_orders, fulfil>>
                    ELSE /\ output_orders' =
                               Append(load_data(completedFile), PopItem(orders, int(s) - 1))
                         /\ fulfil' = [pending |-> load_data(pendingFile),
                                       completed |-> load_data(completedFile),
                                       selection |-> int(s)]
                         /\ pc' = "p_save_in"
                         /\ UNCHANGED result
    /\ UNCHANGED <<files, addLocals, added, failedAt, total, choice>>

\* variant: the completed store is written first
ProcessSavePending_completedFirst ==
    /\ pc = "p_save_in"
    /\ completedFile' = save_orders(output_orders)
    /\ pc' = "p_save_out"
    /\ UNCHANGED <<pendingFile, orders, addLocals, output_orders, selection, processed_order,
                   result, fulfil, added, failedAt, total, choice>>

\* save_orders(INPUT_FILE, orders)
ProcessSavePending ==
    /\ pc = "p_save_in"
    /\ pendingFile' = save_orders(orders)
    /\ pc' = "p_save_out"
    /\ UNCHANGED <<completedFile, orders, addLocals, output_orders, selection, processed_order,
                   result, fulfil, added, failedAt, total, choice>>

\* variant: the list of pending orders is written to the completed store
ProcessSaveCompleted_pendingList ==
    /\ pc = "p_save_out"
    /\ completedFile' = save_orders(orders)
    /\ result' = "Fulfilled"
    /\ output_orders' = <<>>
    /\ selection' = <<>>
    /\ fulfil' = NoFulfil
    /\ pc' = "menu"
    /\ UNCHANGED <<pendingFile, orders, addLocals, processed_order, added,
                   failedAt, total, choice>>

\* save_orders(OUTPUT_FILE, output_orders), and the return to main
ProcessSaveCompleted ==
    /\ pc = "p_save_out"
    /\ completedFile' = save_orders(output_orders)
    /\ result' = "Fulfilled"
    /\ output_orders' = <<>>
    /\ selection' = <<>>
    /\ fulfil' = NoFulfil
    /\ pc' = "menu"
    /\ UNCHANGED <<pendingFile, orders, addLocals, processed_order, added,
                   failedAt, total, choice>>

-----------------------------------------------------------------------------
(* The process and its environment *)

\* the process fails (it is killed, the machine stops) wherever it is: its
\* memory is gone, the files stay as they are
Fail ==
    /\ pc \notin {"exit", "dead"}
    /\ Dies(pc)
    /\ orders' = <<>>
    /\ NoAddLocals
    /\ output_orders' = <<>>
    /\ selection' = <<>>
    /\ processed_order' = <<>>
    /\ result' = "none"
    /\ choice' = "none"
    /\ UNCHANGED <<files, fulfil, added, total>>

\* the program is run again: main starts with nothing in memory
Restart ==
    /\ pc \in {"exit", "dead"}
    /\ pc' = "menu"
    /\ orders' = <<>>
    /\ NoAddLocals
    /\ output_orders' = <<>>
    /\ selection' = <<>>
    /\ processed_order' = <<>>
    /\ result' = "none"
    /\ fulfil' = NoFulfil
    /\ failedAt' = "none"
    /\ choice' = "none"
    /\ UNCHANGED <<files, added, total>>

Next ==
    \/ MenuExit
    \/ MenuAdd
    \/ MenuReport
    \/ MenuProcess
    \/ MenuOther
    \/ AddOrderId
    \/ AddCheckId
    \/ AddCustomer
    \/ AddItemName
    \/ AddFinish
    \/ AddPrice
    \/ AddQuantity
    \/ ProcessEntry
    \/ ProcessSelect
    \/ ProcessSavePending
    \/ ProcessSaveCompleted
    \/ Fail
    \/ Restart

Spec == Init /\ [][Next]_vars

\* the program when the process never fails: it only ends by leaving the menu
NextNoFail ==
    \/ MenuExit
    \/ MenuAdd
    \/ MenuReport
    \/ MenuProcess
    \/ MenuOther
    \/ AddOrderId
    \/ AddCheckId
    \/ AddCustomer
    \/ AddItemName
    \/ AddFinish
    \/ AddPrice
    \/ AddQuantity
    \/ ProcessEntry
    \/ ProcessSelect
    \/ ProcessSavePending
    \/ ProcessSaveCompleted
    \/ Restart

SpecNoFail == Init /\ [][NextNoFail]_vars

-----------------------------------------------------------------------------
(* The program started while output_orders.json cannot be parsed *)

InitCorrupt ==
    /\ pendingFile = NoFile
    /\ completedFile = Unparsable
    /\ pc = "menu"
    /\ orders = <<>>
    /\ order_id = <<>>
    /\ customer = ""
    /\ items = <<>>
    /\ item_name = ""
    /\ price = 0
    /\ output_orders = <<>>
    /\ selection = <<>>
    /\ processed_order = <<>>
    /\ result = "none"
    /\ entered_id = <<>>
    /\ fulfil = NoFulfil
    /\ added = EmptyBag
    /\ failedAt = "none"
    /\ total = 0
    /\ choice = "none"

\* nothing writes output_orders.json before it has been loaded, so the two
\* writes of process_order are never reached from InitCorrupt
NextCorrupt ==
    \/ MenuExit
    \/ MenuAdd
    \/ MenuReport
    \/ MenuProcess
    \/ MenuOther
    \/ AddOrderId
    \/ AddCheckId
    \/ AddCustomer
    \/ AddItemName
    \/ AddFinish
    \/ AddPrice
    \/ AddQuantity
    \/ ProcessEntry
    \/ ProcessSelect
    \/ Fail
    \/ Restart

SpecCorrupt == InitCorrupt /\ [][NextCorrupt]_vars

-----------------------------------------------------------------------------
(* calculate_order_total, save_orders and load_data on their own: each is
   applied to arguments drawn from samples of valid orders *)

SamplePrices == {0, 2, 10}
SampleQuantities == {1, 12}
SampleItems == {new_item("Burger", p, q) : p \in SamplePrices, q \in SampleQuantities}

\* the sequences over S of the lengths lo..hi
SeqsOf(S, lo, hi) == UNION {[1..n -> S] : n \in lo..hi}

\* orders of one to MaxItems line items
SampleOrders == {new_order(<<"A", "1">>, "Tom", its) : its \in SeqsOf(SampleItems, 1, MaxItems)}

\* lists of up to MaxOrders orders
SampleLists ==
    SeqsOf({new_order(id, "Tom", its) :
               id \in {<<"A", "1">>, <<"B", "2">>},
               its \in {<<new_item("Burger", 10, 12)>>,
                        <<new_item("Burger", 0, 1), new_item("Fries", 2, 12)>>}},
           0, MaxOrders)

\* what a location holds before save_orders is called
PriorFiles == {NoFile, save_orders(<<new_order(<<"O", "0">>, "Ann", <<new_item("Tea", 1, 1)>>)>>)}

InitFunctions ==
    /\ orders \in {<<o>> : o \in SampleOrders} \cup SampleLists
    /\ pendingFile \in PriorFiles
    /\ completedFile \in PriorFiles
    /\ pc = "f_call"
    /\ order_id = <<>>
    /\ customer = ""
    /\ items = <<>>
    /\ item_name = ""
    /\ price = 0
    /\ output_orders = <<>>
    /\ selection = <<>>
    /\ processed_order = <<>>
    /\ result = "none"
    /\ entered_id = <<>>
    /\ fulfil = NoFulfil
    /\ added = EmptyBag
    /\ failedAt = "none"
    /\ total = 0
    /\ choice = "none"

\* total = calculate_order_total(order), for the first order of the list
CallTotal ==
    /\ pc = "f_call"
    /\ orders # <<>>
    /\ total' = calculate_order_total(orders[1])
    /\ pc' = "f_total"
    /\ UNCHANGED <<files, orders, addLocals, output_orders, selection, processed_order,
                   result, fulfil, added, failedAt, choice>>

\* save_orders(filename, orders), for either file name
CallSave ==
    /\ pc = "f_call"
    /\ \E filename \in {"orders.json", "output_orders.json"} :
         IF filename = "orders.json"
         THEN /\ pendingFile' = save_orders(orders)
              /\ pc' = "f_saved_in"
              /\ UNCHANGED completedFile
         ELSE /\ completedFile' = save_orders(orders)
              /\ pc' = "f_saved_out"
              /\ UNCHANGED pendingFile
    /\ UNCHANGED <<orders, addLocals, output_orders, selection, processed_order,
                   result, fulfil, added, failedAt, total, choice>>

\* output_orders = load_data(filename), for the file name just saved to
CallLoad ==
    /\ pc \in {"f_saved_in", "f_saved_out"}
    /\ LET file == IF pc = "f_saved_in" THEN pendingFile ELSE completedFile
       IN  /\ ~load_raises(file)
           /\ output_orders' = load_data(file)
    /\ pc' = "f_loaded"
    /\ UNCHANGED <<files, orders, addLocals, selection, processed_order,
                   result, fulfil, added, failedAt, total, choice>>

NextFunctions ==
    \/ CallTotal
    \/ CallSave
    \/ CallLoad

SpecFunctions == InitFunctions /\ [][NextFunctions]_vars

-----------------------------------------------------------------------------
(* What the properties below speak of *)

\* the persisted pending store, as a load reads it
PendingStore == load_data(pendingFile)

\* the persisted completed store, as a load reads it
CompletedStore == load_data(completedFile)

\* the sequence s without its element at the 1-based position i
RemoveAt(s, i) == SubSeq(s, 1, i - 1) \o SubSeq(s, i + 1, Len(s))

\* the bag of the elements of a sequence
RECURSIVE SeqToBag(_)
SeqToBag(s) == IF s = <<>> THEN EmptyBag ELSE SetToBag({Head(s)}) (+) SeqToBag(Tail(s))

\* c and d are the same character, or the two cases of one letter
SameLetter(c, d) ==
    \/ c = d
    \/ \E i \in 1..Len(LowerLetters) :
         \/ c = LowerLetters[i] /\ d = UpperLetters[i]
         \/ c = UpperLetters[i] /\ d = LowerLetters[i]

\* the texts a and b are equal when letter case is ignored
EqualIgnoringCase(a, b) ==
    Len(a) = Len(b) /\ \A i \in 1..Len(a) : SameLetter(a[i], b[i])

\* u is the text s with every lowercase letter replaced by its capital
IsUppercaseOf(u, s) ==
    /\ Len(u) = Len(s)
    /\ \A i \in 1..Len(s) :
         /\ SameLetter(u[i], s[i])
         /\ ~\E k \in 1..Len(LowerLetters) : u[i] = LowerLetters[k]

\* the order o has a line item, and its line items have a price >= 0 and a
\* quantity >= 1
ValidOrder(o) ==
    /\ Len(o.items) >= 1
    /\ \A k \in 1..Len(o.items) : o.items[k].price >= 0 /\ o.items[k].quantity >= 1

\* the integers whose decimal text is s
NumbersWritten(s) == {k \in (0 - 1)..(MaxOrders + 2) : s = IntText(k)}

\* the selection s, typed while n orders are listed, is not empty and is
\* non-numeric or a number out of range: 0, negative or greater than n
IsInvalidSelection(s, n) ==
    s # <<>> /\ \A k \in NumbersWritten(s) : k < 1 \/ k > n

\* the sequence of orders os has an order with the id
HasId(os, id) == \E i \in 1..Len(os) : os[i].order_id = id

\* p1*q1 + ... + pn*qn for the line items its, summed from the last one down
SumOfProducts(its) ==
    LET RECURSIVE UpTo(_)
        UpTo(n) == IF n = 0 THEN 0
                   ELSE UpTo(n - 1) + its[n].price * its[n].quantity
    IN  UpTo(Len(its))

-----------------------------------------------------------------------------
(* C1 *)

\* C1: when a fulfilment of the valid 1-based selection i returns, the
\* persisted pending store is the pending store P of the moment the order was
\* popped without its element at position i, the others in their order; the
\* persisted completed store is the completed store C of that moment with
\* that element appended at the end; and that element is the order returned.
C1_FulfilMovesSelectedOrder ==
    [][(pc = "p_save_out" /\ pc' = "menu") =>
          /\ fulfil.selection \in 1..Len(fulfil.pending)
          /\ load_data(pendingFile') = RemoveAt(fulfil.pending, fulfil.selection)
          /\ load_data(completedFile') =
                Append(fulfil.completed, fulfil.pending[fulfil.selection])
          /\ processed_order' = <<fulfil.pending[fulfil.selection]>>
          /\ result' = "Fulfilled"]_vars

\* a fulfilment has returned the first of several pending orders, next to an
\* earlier completed one
C1_Witness ==
    /\ pc = "menu"
    /\ result = "Fulfilled"
    /\ Len(PendingStore) >= 1
    /\ Len(CompletedStore) >= 1
    /\ processed_order = <<CompletedStore[Len(CompletedStore)]>>

-----------------------------------------------------------------------------
(* C2 *)

\* C2: from empty stores, whatever is typed and wherever the process fails,
\* no two orders of the persisted pending store have the same order_id.
C2_PendingIdsUnique ==
    LET P == PendingStore
    IN  \A i, j \in 1..Len(P) : i # j => P[i].order_id # P[j].order_id

\* two orders are pending
C2_Witness == Len(PendingStore) >= 2

-----------------------------------------------------------------------------
(* C3 *)

\* C3: when the id typed at the order id prompt equals, letter case ignored,
\* the order_id of an order of the pending store, add_order returns the
\* DuplicateOrderId failure, the list in memory stays the pending store as
\* loaded, and neither file is written.
C3_DuplicateIdRefused ==
    [][(/\ pc = "a_check"
        /\ pc' # "dead"
        /\ \E i \in 1..Len(PendingStore) :
              EqualIgnoringCase(entered_id, PendingStore[i].order_id))
       => /\ result' = "DuplicateOrderId"
          /\ pc' = "menu"
          /\ orders' = orders
          /\ orders = PendingStore
          /\ pendingFile' = pendingFile
          /\ completedFile' = completedFile]_vars

\* add_order has returned DuplicateOrderId while A1 is pending
C3_Witness ==
    /\ pc = "menu"
    /\ result = "DuplicateOrderId"
    /\ orders = PendingStore
    /\ \E i \in 1..Len(PendingStore) : PendingStore[i].order_id = <<"A", "1">>

-----------------------------------------------------------------------------
(* C4 *)

\* C4: add_order accepts only a non-empty order id, so that the persisted
\* pending store never holds an order whose order_id is the empty text.
C4_NoEmptyOrderId ==
    LET P == PendingStore
    IN  \A i \in 1..Len(P) : P[i].order_id # <<>>

-----------------------------------------------------------------------------
(* C5 *)

\* C5: when the empty item name ends the item loop before any line item was
\* collected, add_order returns the EmptyOrder failure, the list in memory is
\* unchanged and neither file is written.
C5_EmptyOrderRefused ==
    [][(pc = "a_done" /\ item_name = "" /\ items = <<>> /\ pc' # "dead")
       => /\ result' = "EmptyOrder"
          /\ pc' = "menu"
          /\ orders' = orders
          /\ orders = PendingStore
          /\ pendingFile' = pendingFile
          /\ completedFile' = completedFile]_vars

\* add_order has returned EmptyOrder while an order is pending
C5_Witness ==
    /\ pc = "menu"
    /\ result = "EmptyOrder"
    /\ orders = PendingStore
    /\ Len(PendingStore) >= 1

-----------------------------------------------------------------------------
(* C6 *)

\* C6: from empty stores and in a run where the process does not fail
\* (SpecNoFail), whenever the menu is reached the orders of the two persisted
\* stores together are exactly the orders add_order has added, each as often
\* as it was added and with the order_id, customer and items it was created
\* with.
C6_AddedOrdersKept ==
    pc \in {"menu", "exit"} => SeqToBag(PendingStore \o CompletedStore) = added

\* two orders were added, one of them has been moved to the completed store
C6_Witness ==
    /\ pc = "menu"
    /\ BagCardinality(added) = 2
    /\ Len(PendingStore) = 1
    /\ Len(CompletedStore) = 1

-----------------------------------------------------------------------------
(* C7 *)

\* C7: in a fulfilment of a valid selection the pending store is written
\* first: before the first write both persisted stores are as they were when
\* the order was popped, and from the first write until the second, also if
\* the process fails there, the persisted pending store is without the order
\* at the selected position while the persisted completed store is still the
\* one of that moment, the order not appended to it.
C7_PendingWrittenBeforeCompleted ==
    /\ pc = "p_save_in" =>
          /\ PendingStore = fulfil.pending
          /\ CompletedStore = fulfil.completed
    /\ (pc = "p_save_out" \/ (pc = "dead" /\ failedAt = "p_save_out")) =>
          /\ fulfil.selection \in 1..Len(fulfil.pending)
          /\ PendingStore = RemoveAt(fulfil.pending, fulfil.selection)
          /\ CompletedStore = fulfil.completed

\* the process has failed between the two writes of a fulfilment
C7_Witness ==
    /\ pc = "dead"
    /\ failedAt = "p_save_out"
    /\ fulfil.selection >= 1
    /\ BagCardinality(SeqToBag(PendingStore \o CompletedStore)) < BagCardinality(added)

-----------------------------------------------------------------------------
(* C8 *)

\* C8: from empty stores, whatever is typed at the prompts, every order of the
\* persisted pending store and of the persisted completed store has at least
\* one line item, and every line item has price >= 0 and quantity >= 1.
C8_StoredOrdersValid ==
    LET P == PendingStore
        C == CompletedStore
    IN  /\ \A i \in 1..Len(P) : ValidOrder(P[i])
        /\ \A i \in 1..Len(C) : ValidOrder(C[i])

\* an order with a line item of price 0 is completed and another is pending
C8_Witness ==
    /\ Len(PendingStore) >= 1
    /\ \E i \in 1..Len(CompletedStore) :
          \E k \in 1..Len(CompletedStore[i].items) : CompletedStore[i].items[k].price = 0

-----------------------------------------------------------------------------
(* C9 *)

\* C9: when add_order ends with at least one line item collected (the entered
\* id is then not in the pending store), the persisted pending store becomes
\* the previous one with one order appended at the end, whose order_id is the
\* entered id uppercased, whose customer is the one entered and whose items
\* are the collected line items in entry order, each collected item having
\* been put after the earlier ones; the completed store is unchanged.
C9_AddAppendsOrder ==
    [][/\ (pc = "a_qty" /\ pc' = "a_item") =>
             /\ Len(items') = Len(items) + 1
             /\ SubSeq(items', 1, Len(items)) = items
             /\ items'[Len(items')].name = item_name
             /\ items'[Len(items')].price = price
       /\ (pc = "a_done" /\ items # <<>> /\ pc' # "dead") =>
             /\ ~\E i \in 1..Len(PendingStore) :
                    EqualIgnoringCase(entered_id, PendingStore[i].order_id)
             /\ Len(load_data(pendingFile')) = Len(PendingStore) + 1
             /\ SubSeq(load_data(pendingFile'), 1, Len(PendingStore)) = PendingStore
             /\ IsUppercaseOf(load_data(pendingFile')[Len(PendingStore) + 1].order_id,
                              entered_id)
             /\ load_data(pendingFile')[Len(PendingStore) + 1].customer = customer
             /\ load_data(pendingFile')[Len(PendingStore) + 1].items = items
             /\ completedFile' = completedFile
             /\ result' = "Added"
             /\ pc' = "menu"]_vars

\* an order entered as a1 with two line items was appended after another one
C9_Witness ==
    /\ pc = "menu"
    /\ result = "Added"
    /\ Len(PendingStore) = 2
    /\ PendingStore[2].order_id = <<"A", "1">>
    /\ Len(PendingStore[2].items) = 2
    /\ PendingStore[2].items[1] # PendingStore[2].items[2]

-----------------------------------------------------------------------------
(* C10 *)

\* C10: process_order entered while the persisted pending store is empty
\* returns NoPendingOrders at once: the selection prompt is not reached, no
\* order is returned, the completed store is not loaded and neither file is
\* written.
C10_NoPendingOrders ==
    [][(pc = "p_entry" /\ PendingStore = <<>> /\ pc' # "dead")
       => /\ result' = "NoPendingOrders"
          /\ processed_order' = <<>>
          /\ pc' = "menu"
          /\ output_orders' = <<>>
          /\ fulfil' = NoFulfil
          /\ pendingFile' = pendingFile
          /\ completedFile' = completedFile]_vars

\* process_order has returned NoPendingOrders after the only pending order
\* was fulfilled
C10_Witness ==
    /\ pc = "menu"
    /\ result = "NoPendingOrders"
    /\ processed_order = <<>>
    /\ PendingStore = <<>>
    /\ Len(CompletedStore) >= 1

-----------------------------------------------------------------------------
(* C11 *)

\* C11: when the empty selection is typed at the selection prompt, at the first
\* prompt or after invalid selections, process_order returns Cancelled with no
\* order; the list in memory, the persisted pending store and the persisted
\* completed store are unchanged.
C11_EmptySelectionCancels ==
    [][(pc = "p_select" /\ selection' = <<>> /\ pc' # "dead")
       => /\ result' = "Cancelled"
          /\ processed_order' = <<>>
          /\ pc' = "menu"
          /\ orders' = orders
          /\ pendingFile' = pendingFile
          /\ completedFile' = completedFile]_vars

\* process_order has returned Cancelled while orders are pending and another
\* is completed
C11_Witness ==
    /\ pc = "menu"
    /\ result = "Cancelled"
    /\ processed_order = <<>>
    /\ orders = PendingStore
    /\ Len(PendingStore) >= 1
    /\ Len(CompletedStore) >= 1

-----------------------------------------------------------------------------
(* C12 *)

\* C12, as stated: for a selection that is non-numeric or out of range,
\* process_order returns an InvalidSelection failure to its caller, and no
\* order is removed from the pending store or appended to the completed store.
C12_InvalidSelectionReturned ==
    [][(pc = "p_select" /\ IsInvalidSelection(selection', Len(orders)) /\ pc' # "dead")
       => /\ pc' = "menu"
          /\ result' = "InvalidSelection"
          /\ pendingFile' = pendingFile
          /\ completedFile' = completedFile]_vars

\* C12, amended: for a selection that is non-numeric or out of range (0,
\* negative, or greater than the number of pending orders), process_order
\* itself prints the message and prompts again: it does not return, main gets
\* no result, and no order is removed from the list or the pending store or
\* appended to the completed store.
C12_InvalidSelectionPromptsAgain ==
    [][(pc = "p_select" /\ IsInvalidSelection(selection', Len(orders)) /\ pc' # "dead")
       => /\ pc' = "p_select"
          /\ result' = result
          /\ processed_order' = processed_order
          /\ orders' = orders
          /\ output_orders' = output_orders
          /\ pendingFile' = pendingFile
          /\ completedFile' = completedFile]_vars

\* process_order is at its prompt again after a selection one greater than
\* the number of pending orders
C12_Witness ==
    /\ pc = "p_select"
    /\ Len(orders) >= 1
    /\ orders = PendingStore
    /\ selection = IntText(Len(orders) + 1)

-----------------------------------------------------------------------------
(* C13 *)

\* C13: the completed store only grows at its end: every step of the program
\* leaves the completed store file as it is, except the step that ends a
\* successful fulfilment, after which the persisted completed store is the
\* previous one with exactly one order appended at the end. Adding, reporting,
\* a cancelled fulfilment, an invalid selection and a failure never change it.
C13_CompletedStoreAppendOnly ==
    [][\/ completedFile' = completedFile
       \/ /\ pc = "p_save_out"
          /\ pc' = "menu"
          /\ result' = "Fulfilled"
          /\ Len(load_data(completedFile')) = Len(CompletedStore) + 1
          /\ SubSeq(load_data(completedFile'), 1, Len(CompletedStore)) = CompletedStore
          /\ processed_order' =
                <<load_data(completedFile')[Len(CompletedStore) + 1]>>]_vars

\* a second order has been appended to the completed store
C13_Witness ==
    /\ pc = "menu"
    /\ result = "Fulfilled"
    /\ Len(CompletedStore) = 2
    /\ processed_order = <<CompletedStore[2]>>

-----------------------------------------------------------------------------
(* C14 *)

\* C14: the order id is looked for in the pending store only. When the id
\* entered at add_order is the id of a completed order and of no pending
\* order, the id is not refused, and add_order ending with a line item
\* collected appends an order with that id to the persisted pending store and
\* returns Added; so the same order_id can be in the pending and in the
\* completed store, and twice in the completed store (C14_Witness).
C14_FulfilledIdCanBeReused ==
    [][/\ (/\ pc = "a_check"
           /\ pc' # "dead"
           /\ HasId(CompletedStore, order_id)
           /\ ~HasId(PendingStore, order_id))
          => /\ pc' = "a_customer"
             /\ result' = result
       /\ (/\ pc = "a_done"
           /\ pc' # "dead"
           /\ items # <<>>
           /\ HasId(CompletedStore, order_id))
          => /\ result' = "Added"
             /\ HasId(load_data(pendingFile'), order_id)
             /\ HasId(load_data(completedFile'), order_id)]_vars

\* the completed store holds two orders with the same order_id: the second
\* was added after the first had been fulfilled
C14_Witness ==
    /\ Len(CompletedStore) = 2
    /\ CompletedStore[1].order_id = CompletedStore[2].order_id
    /\ PendingStore = <<>>

-----------------------------------------------------------------------------
(* C15 *)

\* C15: for an order whose line items are (p1,q1),...,(pn,qn) with pi >= 0 and
\* qi >= 1, calculate_order_total returns p1*q1 + ... + pn*qn, and the call
\* leaves the order and both files as they were.
C15_TotalIsSumOfProducts ==
    [][(pc = "f_call" /\ pc' = "f_total")
       => /\ ValidOrder(orders[1])
          /\ total' = SumOfProducts(orders[1].items)
          /\ orders' = orders
          /\ pendingFile' = pendingFile
          /\ completedFile' = completedFile]_vars

\* the total of an order of three line items, two of them different, with a
\* price of 0 among them, has been returned
C15_Witness ==
    /\ pc = "f_total"
    /\ Len(orders[1].items) = 3
    /\ orders[1].items[1] # orders[1].items[2]
    /\ orders[1].items[3].price = 0
    /\ total > 100

-----------------------------------------------------------------------------
(* C16 *)

\* C16: for every list x of valid orders and either file, whatever the file
\* held before, after save_orders(file, x) the file holds x and nothing of
\* what it held before, and load_data(file) returns a list equal to x: the
\* same orders in the same order with the same fields.
C16_SaveThenLoadIsIdentity ==
    /\ pc = "f_saved_in" => load_data(pendingFile) = orders
    /\ pc = "f_saved_out" => load_data(completedFile) = orders
    /\ pc = "f_loaded" =>
          /\ output_orders = orders
          /\ \A i \in 1..Len(orders) : ValidOrder(orders[i])

\* a list of two different orders, with numbers of two digits, has been
\* saved to a file that held another order and has been loaded again
C16_Witness ==
    /\ pc = "f_loaded"
    /\ Len(output_orders) = 2
    /\ output_orders[1] # output_orders[2]
    /\ output_orders[1].items[1].price = 10
    /\ PendingStore # CompletedStore
    /\ PendingStore # <<>>
    /\ CompletedStore # <<>>

-----------------------------------------------------------------------------
(* C17 *)

\* C17: load_data of a file that does not exist returns the empty list and
\* raises nothing. While orders.json does not exist, the menu choices 1, 2 and
\* 3 go on with the empty list and write nothing; while output_orders.json
\* does not exist, a valid selection goes on to the two writes with the
\* selected order alone in output_orders, and the end of that fulfilment
\* creates output_orders.json holding exactly the order returned.
C17_MissingStoreIsEmpty ==
    [][/\ (pc = "menu" /\ ~pendingFile.exists /\ pc' # "exit")
          => /\ failedAt' # "load_data"
             /\ \/ pc' = "dead"
                \/ /\ pc' \in {"a_id", "menu", "p_entry"}
                   /\ orders' = <<>>
                   /\ pendingFile' = pendingFile
                   /\ completedFile' = completedFile
       /\ (/\ pc = "p_select"
           /\ ~completedFile.exists
           /\ \E k \in 1..Len(orders) : selection' = IntText(k))
          => /\ pc' = "p_save_in"
             /\ Len(output_orders') = 1
             /\ processed_order' = output_orders'
       /\ (pc = "p_save_out" /\ ~completedFile.exists /\ pc' # "dead")
          => /\ completedFile'.exists
             /\ Len(load_data(completedFile')) = 1
             /\ load_data(completedFile') = processed_order'
             /\ result' = "Fulfilled"]_vars

\* the first fulfilment has created the completed store, with the order it
\* returned, while another order is pending
C17_Witness ==
    /\ pc = "menu"
    /\ result = "Fulfilled"
    /\ Len(CompletedStore) = 1
    /\ processed_order = CompletedStore
    /\ Len(PendingStore) = 1

-----------------------------------------------------------------------------
(* C18 *)

\* C18: when output_orders.json is there but cannot be parsed and the valid
\* selection k is typed, the fulfilment stops before either write: neither
\* file is written, the persisted pending store still holds the selected
\* order (at position k when the list in memory was the pending store), the
\* completed store file is untouched, and the list in memory is the one of
\* before without its k-th order.
C18_CorruptCompletedStore ==
    [][\A k \in 1..Len(orders) :
          (/\ pc = "p_select"
           /\ completedFile.exists
           /\ ~completedFile.wellformed
           /\ selection' = IntText(k))
          => /\ pc' \notin {"p_save_in", "p_save_out"}
             /\ pendingFile' = pendingFile
             /\ completedFile' = completedFile
             /\ HasId(load_data(pendingFile'), orders[k].order_id)
             /\ orders = PendingStore => load_data(pendingFile')[k] = orders[k]
             /\ orders' = RemoveAt(orders, k)
             /\ result' = result]_vars

\* the second of two pending orders was selected while the completed store
\* cannot be parsed: it is gone from the list in memory only
C18_Witness ==
    /\ completedFile.exists
    /\ ~completedFile.wellformed
    /\ pc = "p_select"
    /\ selection = <<"2">>
    /\ Len(PendingStore) = 2
    /\ orders = <<PendingStore[1]>>
    /\ processed_order = <<PendingStore[2]>>

-----------------------------------------------------------------------------
(* C19 *)

\* C19: wherever the process fails, before, between or after the two writes
\* of a fulfilment, and however often the program is run again, the two
\* persisted stores together never hold an order more often than it was
\* added: no added order is in the pending and in the completed store at the
\* same time. (An order can be in neither: C19_Witness.)
C19_NoOrderInBothStores ==
    LET P == load_data(pendingFile)
        C == load_data(completedFile)
    IN  SeqToBag(P \o C) \sqsubseteq added

\* after a failure between the two writes and a new start, the only order
\* added is in neither store
C19_Witness ==
    /\ pc = "menu"
    /\ BagCardinality(added) = 1
    /\ pendingFile.exists
    /\ PendingStore = <<>>
    /\ CompletedStore = <<>>

-----------------------------------------------------------------------------
(* C20 *)

\* C20: at the menu, the empty choice and "4" both end the loop; "2" and any
\* choice other than "1", "2", "3", "4" and the empty one leave both files as
\* they are and bring the menu again; and after "1", "2" and "3" the list the
\* action works on is the persisted pending store as loaded in that step,
\* whatever list main had in memory before.
C20_MenuLoop ==
    [][(pc = "menu" /\ pc' # "dead")
       => /\ choice' \in {"", "4"} => pc' = "exit"
          /\ pc' = "exit" => choice' \in {"", "4"}
          /\ (choice' = "2" \/ choice' \notin {"", "1", "2", "3", "4"})
                => /\ pc' = "menu"
                   /\ pendingFile' = pendingFile
                   /\ completedFile' = completedFile
          /\ choice' = "1" => pc' = "a_id"
          /\ choice' = "3" => pc' = "p_entry"
          /\ choice' \in {"1", "2", "3"} => orders' = load_data(pendingFile)]_vars

\* the report has been shown from the pending store as loaded, back at the
\* menu, in a run of the program that started with orders pending
C20_Witness ==
    /\ pc = "menu"
    /\ choice = "2"
    /\ result = "none"
    /\ Len(PendingStore) >= 1
    /\ orders = PendingStore

====
